---- MODULE Spec2Model ----
(***************************************************************************)
(* Model of the Ses component of pulumi-aws-ses (src/src/index.ts).        *)
(*                                                                         *)
(* The constructor is straight-line code that declares one IAM user, its   *)
(* policy and access key, one SES domain identity and the Route53 records  *)
(* around it.  Each `new aws....(name, args)` is one step of the           *)
(* constructor.  The arguments of a resource may hold Outputs of other     *)
(* resources; a resource is registered with the provider only when every   *)
(* Output among its arguments has resolved, and the arguments are          *)
(* evaluated then.  The constructor has no await, so every declaration     *)
(* precedes every realization.                                             *)
(*                                                                         *)
(* Strings are TLA+ strings; a template literal is a concatenation.        *)
(***************************************************************************)
EXTENDS Integers, Sequences, FiniteSets, TLC

VARIABLES
    pc,         \* the statement the constructor executes next
    stack,      \* pulumi.getStack()
    args,       \* the SesArgs given to the constructor
    i,          \* the loop counter of the DKIM loop
    component,  \* the component resource registered by super(), or NoComponent
    declared,   \* resource variable -> its declaration (type, name, parent, deps)
    realized    \* resource variable -> resolved arguments and provider outputs

vars == <<pc, stack, args, i, component, declared, realized>>

----------------------------------------------------------------------------
(* Inputs *)

\* JavaScript's undefined; a template literal renders it as "undefined".
undefined == "undefined"

\* The value an Output shows while the resource that produces it is not realized.
Unresolved == "<unresolved output>"

Stacks == {"production", "staging", "dev"}

\* "" is the empty base domain a caller may pass.
BaseDomains == {"example.com", ""}

Regions == {"us-east-1", "eu-west-1"}

AdminEmailAddresses == {"admin@example.com", "postmaster@codicy.io"}

\* A caller that omits the zone passes undefined.
DnsZoneIds == {"Z123", undefined}

ComponentName == "mail"

\* Values the provider may issue.
VerificationTokens == {"vtokA", "vtokB"}

\* SES issues three distinct DKIM tokens per domain.
DkimTokenLists == {<<"dk1", "dk2", "dk3">>, <<"dk4", "dk1", "dk2">>}

AccessKeyIds == {"AKIAEXAMPLE"}

\* The parent of a resource declared without opts.parent: the root stack resource.
RootStack == "pulumi:pulumi:Stack"

NoComponent == [type |-> "", name |-> "", parent |-> "", outputsRegistered |-> FALSE]

----------------------------------------------------------------------------
(* Outputs *)

IsRealized(k) == k \in DOMAIN realized

\* The value of output f of resource k as a dependent sees it.
Out(k, f) == IF IsRealized(k) THEN realized[k].outputs[f] ELSE Unresolved

\* stackDomainDKIM.dkimTokens[n]: lifted indexing of an Output, n counted from 0.
DkimTokenAt(n) ==
    IF ~IsRealized("stackDomainDKIM") THEN Unresolved
    ELSE LET tokens == realized["stackDomainDKIM"].outputs.dkimTokens
         IN  IF n + 1 \in DOMAIN tokens THEN tokens[n + 1] ELSE undefined

----------------------------------------------------------------------------
(* Names derived at the top of the constructor *)

resourcePrefix == args.baseDomain \o "-" \o stack

emailUsername == resourcePrefix \o "-email"

\* The environment forgotten.
allowedFromAddress_BaseOnly == "*@" \o args.baseDomain

allowedFromAddress ==
    IF stack = "production"
    THEN "*@" \o args.baseDomain
    ELSE "*@" \o stack \o "." \o args.baseDomain

\* The production case forgotten.
domain_AlwaysQualified == stack \o "." \o args.baseDomain

domain ==
    IF stack = "production"
    THEN args.baseDomain
    ELSE stack \o "." \o args.baseDomain

dkimRecordCount == 3

ttl == 3600


----------------------------------------------------------------------------
(* JSON.stringify(value, null, '  ') of the policy object.  A JSON string   *)
(* is its text between double quotes; the characters JSON escapes (quote,   *)
(* backslash, control characters) occur in no input of the model.           *)

JsonString(s) == "\"" \o s \o "\""

PolicyDocument(fromAddress) ==
    "{\n"
    \o "  \"Version\": \"2012-10-17\",\n"
    \o "  \"Statement\": [\n"
    \o "    {\n"
    \o "      \"Action\": [\n"
    \o "        \"ses:SendEmail\",\n"
    \o "        \"ses:SendTemplatedEmail\",\n"
    \o "        \"ses:SendRawEmail\",\n"
    \o "        \"ses:SendBulkTemplatedEmail\"\n"
    \o "      ],\n"
    \o "      \"Effect\": \"Allow\",\n"
    \o "      \"Resource\": \"*\",\n"
    \o "      \"Condition\": {\n"
    \o "        \"StringLike\": {\n"
    \o "          \"ses:FromAddress\": " \o JsonString(fromAddress) \o "\n"
    \o "        }\n"
    \o "      }\n"
    \o "    }\n"
    \o "  ]\n"
    \o "}"

----------------------------------------------------------------------------
(* The arguments of each resource, evaluated when it is registered with     *)
(* the provider, and the resources whose Outputs they read.                 *)

emailUserArgs ==
    [name |-> emailUsername, path |-> "/system/", tags |-> [Environment |-> stack]]

emailUserDeps == {}

emailUserPolicyArgs ==
    [user |-> Out("emailUser", "name"), policy |-> PolicyDocument(allowedFromAddress)]

emailUserPolicyDeps == {"emailUser"}

emailAccessKeyArgs == [user |-> Out("emailUser", "name")]

emailAccessKeyDeps == {"emailUser"}

stackDomainIdentityArgs == [domain |-> domain]

stackDomainIdentityDeps == {}

sesStackVerificationRecordArgs ==
    [zoneId |-> args.dnsZoneId,
     name |-> "_amazonses." \o stack,
     ttl |-> ttl,
     type |-> "TXT",
     records |-> <<Out("stackDomainIdentity", "verificationToken")>>]

\* The token read without depending on the identity.
sesStackVerificationRecordDeps_None == {}

sesStackVerificationRecordDeps == {"stackDomainIdentity"}

stackMailFromArgs ==
    [domain |-> Out("stackDomainIdentity", "domain"),
     mailFromDomain |-> "bounce." \o Out("stackDomainIdentity", "domain")]

stackMailFromDeps == {"stackDomainIdentity"}

\* The region hard-coded.
stackMailFromMXRecordArgs_FixedRegion ==
    [zoneId |-> args.dnsZoneId,
     name |-> Out("stackMailFrom", "mailFromDomain"),
     type |-> "MX",
     ttl |-> ttl,
     records |-> <<"10 feedback-smtp.us-east-1.amazonses.com">>]

stackMailFromMXRecordArgs ==
    [zoneId |-> args.dnsZoneId,
     name |-> Out("stackMailFrom", "mailFromDomain"),
     type |-> "MX",
     ttl |-> ttl,
     records |-> <<"10 feedback-smtp." \o args.region \o ".amazonses.com">>]

stackMailFromMXRecordDeps == {"stackMailFrom"}

\* The SPF record put at the send domain.
stackSPFMXRecordArgs_AtSendDomain ==
    [name |-> Out("stackDomainIdentity", "domain"),
     type |-> "TXT",
     ttl |-> ttl,
     zoneId |-> args.dnsZoneId,
     records |-> <<"v=spf1 include:amazonses.com mail -all">>]

stackSPFMXRecordArgs ==
    [name |-> Out("stackMailFrom", "mailFromDomain"),
     type |-> "TXT",
     ttl |-> ttl,
     zoneId |-> args.dnsZoneId,
     records |-> <<"v=spf1 include:amazonses.com mail -all">>]

stackSPFMXRecordDeps == {"stackMailFrom"}

stackDomainDKIMArgs == [domain |-> Out("stackDomainIdentity", "domain")]

stackDomainDKIMDeps == {"stackDomainIdentity"}

\* Every iteration reading the first token.
dkimRecordArgs_FirstToken(n) ==
    [zoneId |-> args.dnsZoneId,
     name |-> DkimTokenAt(0) \o "._domainkey." \o stack \o "." \o args.baseDomain,
     type |-> "CNAME",
     ttl |-> ttl,
     records |-> <<DkimTokenAt(0) \o ".dkim.amazonses.com">>]

\* The record declared by iteration n (0, 1, 2) of the DKIM loop.
dkimRecordArgs(n) ==
    [zoneId |-> args.dnsZoneId,
     name |-> DkimTokenAt(n) \o "._domainkey." \o stack \o "." \o args.baseDomain,
     type |-> "CNAME",
     ttl |-> ttl,
     records |-> <<DkimTokenAt(n) \o ".dkim.amazonses.com">>]

dkimRecordDeps == {"stackDomainDKIM"}

\* The report address derived from the base domain instead of the argument.
dmarcRecordArgs_FixedMailbox ==
    [name |-> "_dmarc." \o domain,
     zoneId |-> args.dnsZoneId,
     ttl |-> ttl,
     type |-> "TXT",
     records |-> <<"v=DMARC1; p=none; rua=mailto:admin@" \o args.baseDomain \o "; fo=1;">>]

dmarcRecordArgs ==
    [name |-> "_dmarc." \o domain,
     zoneId |-> args.dnsZoneId,
     ttl |-> ttl,
     type |-> "TXT",
     records |-> <<"v=DMARC1; p=none; rua=mailto:" \o args.adminEmailAddress \o "; fo=1;">>]

dmarcRecordDeps == {}

\* The variable holding the record of iteration n of the DKIM loop.
DkimRecordKey(n) == "dkimRecord" \o ToString(n)

\* The resources declared by the DKIM loop; each closes over its own i.
IsDkimRecord(k) == k \in DOMAIN declared /\ declared[k].index >= 0

ArgsOf(k) ==
    CASE k = "emailUser" -> emailUserArgs
      [] k = "emailUserPolicy" -> emailUserPolicyArgs
      [] k = "emailAccessKey" -> emailAccessKeyArgs
      [] k = "stackDomainIdentity" -> stackDomainIdentityArgs
      [] k = "sesStackVerificationRecord" -> sesStackVerificationRecordArgs
      [] k = "stackMailFrom" -> stackMailFromArgs
      [] k = "stackMailFromMXRecord" -> stackMailFromMXRecordArgs
      [] k = "stackSPFMXRecord" -> stackSPFMXRecordArgs
      [] k = "stackDomainDKIM" -> stackDomainDKIMArgs
      [] k = "dmarcRecord" -> dmarcRecordArgs
      [] OTHER -> dkimRecordArgs(declared[k].index)

----------------------------------------------------------------------------
(* Resource options *)

\* No declaration of the constructor passes a third argument.
NoOpts == [parent |-> undefined]

childOpts == NoOpts

\* The identity of the component, as a parent of other resources.
This == "codicy:aws-ses::" \o ComponentName

ParentOf(opts) == IF opts.parent = undefined THEN RootStack ELSE opts.parent

----------------------------------------------------------------------------
(* The constructor *)

Init ==
    /\ pc = "super"
    /\ stack \in Stacks
    /\ args \in [baseDomain : BaseDomains, region : Regions,
                 adminEmailAddress : AdminEmailAddresses, dnsZoneId : DnsZoneIds]
    /\ i = 0
    /\ component = NoComponent
    /\ declared = << >>
    /\ realized = << >>

\* new T(name, args): the declaration is recorded; its arguments resolve later.
Declare(k, type, name, deps, index) ==
    declared' = declared @@
        (k :> [type |-> type, name |-> name, parent |-> ParentOf(childOpts),
               deps |-> deps, index |-> index])

Super ==
    /\ pc = "super"
    /\ component' = [type |-> "codicy:aws-ses", name |-> ComponentName,
                     parent |-> ParentOf(NoOpts), outputsRegistered |-> FALSE]
    /\ pc' = "emailUser"
    /\ UNCHANGED <<stack, args, i, declared, realized>>

DeclareEmailUser ==
    /\ pc = "emailUser"
    /\ Declare("emailUser", "aws:iam:User", resourcePrefix \o "-ses", emailUserDeps, -1)
    /\ pc' = "emailUserPolicy"
    /\ UNCHANGED <<stack, args, i, component, realized>>

DeclareEmailUserPolicy ==
    /\ pc = "emailUserPolicy"
    /\ Declare("emailUserPolicy", "aws:iam:UserPolicy", resourcePrefix \o "-ses-policy",
               emailUserPolicyDeps, -1)
    /\ pc' = "emailAccessKey"
    /\ UNCHANGED <<stack, args, i, component, realized>>

DeclareEmailAccessKey ==
    /\ pc = "emailAccessKey"
    /\ Declare("emailAccessKey", "aws:iam:AccessKey", resourcePrefix \o "-ses-access-key",
               emailAccessKeyDeps, -1)
    /\ pc' = "stackDomainIdentity"
    /\ UNCHANGED <<stack, args, i, component, realized>>

DeclareStackDomainIdentity ==
    /\ pc = "stackDomainIdentity"
    /\ Declare("stackDomainIdentity", "aws:ses:DomainIdentity", resourcePrefix,
               stackDomainIdentityDeps, -1)
    /\ pc' = "sesStackVerificationRecord"
    /\ UNCHANGED <<stack, args, i, component, realized>>

DeclareSesStackVerificationRecord ==
    /\ pc = "sesStackVerificationRecord"
    /\ Declare("sesStackVerificationRecord", "aws:route53:Record",
               resourcePrefix \o "-ses-verification", sesStackVerificationRecordDeps, -1)
    /\ pc' = "stackMailFrom"
    /\ UNCHANGED <<stack, args, i, component, realized>>

DeclareStackMailFrom ==
    /\ pc = "stackMailFrom"
    /\ Declare("stackMailFrom", "aws:ses:MailFrom", resourcePrefix \o "-ses-mail-from",
               stackMailFromDeps, -1)
    /\ pc' = "stackMailFromMXRecord"
    /\ UNCHANGED <<stack, args, i, component, realized>>

DeclareStackMailFromMXRecord ==
    /\ pc = "stackMailFromMXRecord"
    /\ Declare("stackMailFromMXRecord", "aws:route53:Record",
               resourcePrefix \o "-ses-mail-from-mx-record", stackMailFromMXRecordDeps, -1)
    /\ pc' = "stackSPFMXRecord"
    /\ UNCHANGED <<stack, args, i, component, realized>>

DeclareStackSPFMXRecord ==
    /\ pc = "stackSPFMXRecord"
    /\ Declare("stackSPFMXRecord", "aws:route53:Record",
               resourcePrefix \o "-ses-spf-mx-record", stackSPFMXRecordDeps, -1)
    /\ pc' = "stackDomainDKIM"
    /\ UNCHANGED <<stack, args, i, component, realized>>

\* Declares the DKIM config and enters the loop with i = 0.
DeclareStackDomainDKIM ==
    /\ pc = "stackDomainDKIM"
    /\ Declare("stackDomainDKIM", "aws:ses:DomainDkim", resourcePrefix \o "-ses-domain-dkim",
               stackDomainDKIMDeps, -1)
    /\ i' = 0
    /\ pc' = "dkimLoop"
    /\ UNCHANGED <<stack, args, component, realized>>

\* One iteration of for (let i = 0; i < dkimRecordCount; i++).
DeclareDkimRecord ==
    /\ pc = "dkimLoop"
    /\ i < dkimRecordCount
    /\ Declare(DkimRecordKey(i), "aws:route53:Record",
               resourcePrefix \o "-dkim-record-" \o ToString(i + 1) \o "-of-"
                   \o ToString(dkimRecordCount),
               dkimRecordDeps, i)
    /\ i' = i + 1
    /\ UNCHANGED <<pc, stack, args, component, realized>>

\* The loop exits and the DMARC record is declared.
DeclareDmarcRecord ==
    /\ pc = "dkimLoop"
    /\ ~(i < dkimRecordCount)
    /\ Declare("dmarcRecord", "aws:route53:Record", resourcePrefix \o "-external-dmarc",
               dmarcRecordDeps, -1)
    /\ pc' = "registerOutputs"
    /\ UNCHANGED <<stack, args, i, component, realized>>

RegisterOutputs ==
    /\ pc = "registerOutputs"
    /\ component' = [component EXCEPT !.outputsRegistered = TRUE]
    /\ pc' = "done"
    /\ UNCHANGED <<stack, args, i, declared, realized>>

----------------------------------------------------------------------------
(* Realization: the provider creates a declared resource once every Output  *)
(* among its arguments has resolved, and reports the resource's outputs.    *)

CanRealize(k) ==
    /\ pc = "done"
    /\ k \in DOMAIN declared
    /\ ~IsRealized(k)
    /\ \A d \in declared[k].deps : IsRealized(d)

Realize(k, outputs) ==
    /\ CanRealize(k)
    /\ realized' = realized @@ (k :> [args |-> ArgsOf(k), outputs |-> outputs])
    /\ UNCHANGED <<pc, stack, args, i, component, declared>>

\* The identity echoes its domain and issues a verification token.
RealizeDomainIdentity ==
    \E token \in VerificationTokens :
        Realize("stackDomainIdentity",
                [domain |-> stackDomainIdentityArgs.domain, verificationToken |-> token])

\* The DKIM config issues its three tokens.
RealizeDomainDKIM ==
    \E tokens \in DkimTokenLists :
        Realize("stackDomainDKIM",
                [domain |-> stackDomainDKIMArgs.domain, dkimTokens |-> tokens])

RealizeMailFrom ==
    Realize("stackMailFrom",
            [domain |-> stackMailFromArgs.domain,
             mailFromDomain |-> stackMailFromArgs.mailFromDomain])

RealizeEmailUser == Realize("emailUser", [name |-> emailUserArgs.name])

RealizeEmailAccessKey ==
    \E id \in AccessKeyIds :
        Realize("emailAccessKey",
                [id |-> id, sesSmtpPasswordV4 |-> "smtp-password-of-" \o id])

RealizeEmailUserPolicy == Realize("emailUserPolicy", [name |-> emailUserPolicyArgs.user])

\* A Route53 record echoes its name.
RealizeRecord ==
    \E k \in DOMAIN declared :
        /\ declared[k].type = "aws:route53:Record"
        /\ Realize(k, [name |-> ArgsOf(k).name])

getEmailUserSmtpPassword == Out("emailAccessKey", "sesSmtpPasswordV4")

getEmailUserId == Out("emailAccessKey", "id")

Next ==
    \/ Super
    \/ DeclareEmailUser
    \/ DeclareEmailUserPolicy
    \/ DeclareEmailAccessKey
    \/ DeclareStackDomainIdentity
    \/ DeclareSesStackVerificationRecord
    \/ DeclareStackMailFrom
    \/ DeclareStackMailFromMXRecord
    \/ DeclareStackSPFMXRecord
    \/ DeclareStackDomainDKIM
    \/ DeclareDkimRecord
    \/ DeclareDmarcRecord
    \/ RegisterOutputs
    \/ RealizeEmailUser
    \/ RealizeEmailUserPolicy
    \/ RealizeEmailAccessKey
    \/ RealizeDomainIdentity
    \/ RealizeMailFrom
    \/ RealizeDomainDKIM
    \/ RealizeRecord

Spec == Init /\ [][Next]_vars

----------------------------------------------------------------------------
(* Vocabulary of the properties *)

Contains(s, sub) ==
    \E p \in 1..(Len(s) - Len(sub) + 1) : SubSeq(s, p, p + Len(sub) - 1) = sub

EndsWith(s, suffix) ==
    Len(s) >= Len(suffix) /\ SubSeq(s, Len(s) - Len(suffix) + 1, Len(s)) = suffix

\* The send domain as the specification states it.
SendDomain ==
    IF stack = "production" THEN args.baseDomain ELSE stack \o "." \o args.baseDomain

DeclaredOfType(type) == {k \in DOMAIN declared : declared[k].type = type}

ConstructorReturned == pc = "done"

----------------------------------------------------------------------------
\* C1: the domain given to the Domain Identity is <environment>.<base domain>
\* when the environment is not "production" and exactly <base domain> when it
\* is; staging with example.com gives staging.example.com.
C1_SendDomain ==
    IsRealized("stackDomainIdentity") =>
        LET d == realized["stackDomainIdentity"].args.domain
        IN  /\ stack # "production" => d = stack \o "." \o args.baseDomain
            /\ stack = "production" => d = args.baseDomain
            /\ (stack = "staging" /\ args.baseDomain = "example.com")
                   => d = "staging.example.com"

C1_Witness ==
    /\ IsRealized("stackDomainIdentity")
    /\ stack = "production"
    /\ realized["stackDomainIdentity"].args.domain = "example.com"

\* C2: the pattern in the policy's ses:FromAddress condition is "*@" followed
\* by the send domain: *@<environment>.<base domain> outside production,
\* *@<base domain> in production, the domain the Domain Identity is declared for.
C2_AllowedSender ==
    IsRealized("emailUserPolicy") =>
        LET policy == realized["emailUserPolicy"].args.policy
            pattern == IF stack = "production"
                       THEN "*@" \o args.baseDomain
                       ELSE "*@" \o stack \o "." \o args.baseDomain
        IN  /\ Contains(policy,
                        "\"StringLike\": {\n          \"ses:FromAddress\": \""
                            \o pattern \o "\"\n")
            /\ IsRealized("stackDomainIdentity") =>
                   pattern = "*@" \o realized["stackDomainIdentity"].args.domain

C2_Witness ==
    /\ IsRealized("emailUserPolicy")
    /\ IsRealized("stackDomainIdentity")
    /\ stack = "staging"
    /\ Contains(realized["emailUserPolicy"].args.policy,
                "\"ses:FromAddress\": \"*@staging.example.com\"")

\* C3: the MAIL FROM domain, and so the name of the return-path MX record, is
\* "bounce." followed by the Domain Identity's domain output, and the MX
\* record's only value is "10 feedback-smtp.<region>.amazonses.com".
C3_ReturnPath ==
    /\ IsRealized("stackMailFrom") =>
           /\ realized["stackMailFrom"].args.mailFromDomain
                  = "bounce." \o realized["stackDomainIdentity"].outputs.domain
           /\ realized["stackMailFrom"].args.mailFromDomain = "bounce." \o SendDomain
    /\ IsRealized("stackMailFromMXRecord") =>
           /\ realized["stackMailFromMXRecord"].args.name
                  = "bounce." \o realized["stackDomainIdentity"].outputs.domain
           /\ realized["stackMailFromMXRecord"].args.type = "MX"
           /\ realized["stackMailFromMXRecord"].args.records
                  = <<"10 feedback-smtp." \o args.region \o ".amazonses.com">>

C3_Witness ==
    /\ IsRealized("stackMailFromMXRecord")
    /\ realized["stackMailFromMXRecord"].args.name = "bounce.staging.example.com"
    /\ realized["stackMailFromMXRecord"].args.records
           = <<"10 feedback-smtp.us-east-1.amazonses.com">>

\* C4: the SPF TXT record's name is the return-path domain, bounce.<send
\* domain>, and never the primary send domain.
C4_SpfAtReturnPath ==
    IsRealized("stackSPFMXRecord") =>
        LET name == realized["stackSPFMXRecord"].args.name
        IN  /\ name = realized["stackMailFrom"].outputs.mailFromDomain
            /\ name = "bounce." \o SendDomain
            /\ name # SendDomain
            /\ name # realized["stackDomainIdentity"].outputs.domain
            /\ realized["stackSPFMXRecord"].args.type = "TXT"

C4_Witness ==
    /\ IsRealized("stackSPFMXRecord")
    /\ stack = "production"
    /\ realized["stackSPFMXRecord"].args.name = "bounce.example.com"

\* C5: exactly 3 signing CNAME records are declared, one per token position;
\* record i is named <token_i>._domainkey.<environment>.<base domain> with the
\* only value <token_i>.dkim.amazonses.com, and the names, and the values, of
\* the 3 records are pairwise distinct.
C5_SigningRecords ==
    LET recs == {k \in DOMAIN declared : IsDkimRecord(k)}
        done == {k \in recs : IsRealized(k)}
    IN  /\ Cardinality(recs) <= 3
        /\ pc \in {"registerOutputs", "done"} =>
               /\ Cardinality(recs) = 3
               /\ {declared[k].index : k \in recs} = {0, 1, 2}
        /\ \A k \in done :
               LET token == realized["stackDomainDKIM"].outputs.dkimTokens[declared[k].index + 1]
               IN  /\ realized[k].args.type = "CNAME"
                   /\ realized[k].args.name
                          = token \o "._domainkey." \o stack \o "." \o args.baseDomain
                   /\ realized[k].args.records = <<token \o ".dkim.amazonses.com">>
        /\ \A k, l \in done :
               k # l => /\ realized[k].args.name # realized[l].args.name
                        /\ realized[k].args.records # realized[l].args.records

C5_Witness ==
    /\ Cardinality({k \in DOMAIN declared : IsDkimRecord(k) /\ IsRealized(k)}) = 3
    /\ realized[DkimRecordKey(2)].args.name = "dk3._domainkey.staging.example.com"
    /\ realized[DkimRecordKey(2)].args.records = <<"dk3.dkim.amazonses.com">>

\* C6: a dependent record is realized only after the resource whose output
\* it reads has resolved, and with the resolved value: the verification record
\* after the identity's token, the return-path MX and SPF records after the
\* identity's domain and the return-path config, each signing record after the
\* DKIM tokens; none carries an unresolved or default value.
C6_DependentsSeeResolved ==
    /\ IsRealized("sesStackVerificationRecord") =>
           /\ IsRealized("stackDomainIdentity")
           /\ realized["sesStackVerificationRecord"].args.records
                  = <<realized["stackDomainIdentity"].outputs.verificationToken>>
           /\ realized["sesStackVerificationRecord"].args.records[1] \in VerificationTokens
    /\ IsRealized("stackMailFrom") =>
           /\ IsRealized("stackDomainIdentity")
           /\ ~Contains(realized["stackMailFrom"].args.mailFromDomain, Unresolved)
    /\ \A k \in {"stackMailFromMXRecord", "stackSPFMXRecord"} :
           IsRealized(k) =>
               /\ IsRealized("stackMailFrom")
               /\ IsRealized("stackDomainIdentity")
               /\ realized[k].args.name = realized["stackMailFrom"].outputs.mailFromDomain
               /\ ~Contains(realized[k].args.name, Unresolved)
    /\ \A k \in DOMAIN realized :
           IsDkimRecord(k) =>
               /\ IsRealized("stackDomainDKIM")
               /\ IsRealized("stackDomainIdentity")
               /\ \E token \in {realized["stackDomainDKIM"].outputs.dkimTokens[n] : n \in 1..3} :
                      /\ realized[k].args.records = <<token \o ".dkim.amazonses.com">>
                      /\ Contains(realized[k].args.name, token \o "._domainkey.")
               /\ ~Contains(realized[k].args.name, Unresolved)
               /\ ~Contains(realized[k].args.name, undefined)
               /\ ~Contains(realized[k].args.records[1], Unresolved)
               /\ ~Contains(realized[k].args.records[1], undefined)

C6_Witness ==
    /\ IsRealized("sesStackVerificationRecord")
    /\ IsRealized("stackMailFromMXRecord")
    /\ IsRealized("stackSPFMXRecord")
    /\ \A n \in 0..2 : IsRealized(DkimRecordKey(n))
    /\ realized["sesStackVerificationRecord"].args.records = <<"vtokB">>

\* C7: a constructor given an empty base domain, an empty environment name or
\* no DNS zone is rejected before any resource is declared: with such an input
\* the set of declared resources stays empty.
C7_InvalidInputRejected ==
    (args.baseDomain = "" \/ stack = "" \/ args.dnsZoneId = undefined) =>
        DOMAIN declared = {}

\* C8: there is exactly one Domain Identity, and the domain part of every
\* domain-qualified record name (return-path MX, SPF, the 3 signing records,
\* DMARC) equals that identity's domain output, in every environment.
C8_RecordsUseIdentityDomain ==
    /\ Cardinality(DeclaredOfType("aws:ses:DomainIdentity")) <= 1
    /\ ConstructorReturned => Cardinality(DeclaredOfType("aws:ses:DomainIdentity")) = 1
    /\ IsRealized("stackDomainIdentity") =>
           LET d == realized["stackDomainIdentity"].outputs.domain
           IN  /\ \A k \in {"stackMailFromMXRecord", "stackSPFMXRecord"} :
                      IsRealized(k) => realized[k].args.name = "bounce." \o d
               /\ IsRealized("dmarcRecord") =>
                      realized["dmarcRecord"].args.name = "_dmarc." \o d
               /\ \A k \in DOMAIN realized :
                      IsDkimRecord(k) =>
                          realized[k].args.name
                              = realized["stackDomainDKIM"].outputs.dkimTokens[declared[k].index + 1]
                                    \o "._domainkey." \o d

\* C9: exactly one DMARC TXT record is declared, named _dmarc.<send domain>,
\* whose only value holds the administrative address verbatim right after
\* "rua=mailto:" and holds "fo=1".
C9_ReportingPolicy ==
    /\ ConstructorReturned =>
           Cardinality({k \in DOMAIN declared :
                            EndsWith(declared[k].name, "-external-dmarc")}) = 1
    /\ Cardinality({k \in DOMAIN realized :
                        declared[k].type = "aws:route53:Record"
                        /\ Contains(realized[k].args.name, "_dmarc.")}) <= 1
    /\ IsRealized("dmarcRecord") =>
           LET a == realized["dmarcRecord"].args
           IN  /\ a.type = "TXT"
               /\ a.name = "_dmarc." \o SendDomain
               /\ Len(a.records) = 1
               /\ Contains(a.records[1], "rua=mailto:" \o args.adminEmailAddress \o ";")
               /\ Contains(a.records[1], "fo=1")

C9_Witness ==
    /\ IsRealized("dmarcRecord")
    /\ realized["dmarcRecord"].args.name = "_dmarc.example.com"
    /\ Contains(realized["dmarcRecord"].args.records[1], "rua=mailto:admin@example.com")

\* C10: every resource the constructor declares has the component instance
\* as its parent, so that when registerOutputs is called the resources owned
\* by the instance are exactly the resources it declared.
C10_ChildrenOwned ==
    /\ \A k \in DOMAIN declared : declared[k].parent = This
    /\ component.outputsRegistered =>
           {k \in DOMAIN declared : declared[k].parent = This} = DOMAIN declared

====
